---- MODULE Spec2Model ----
(***************************************************************************)
(* Model of the MeOS information-service client                            *)
(*   src/utils/meos_info_service.py          (MeosInfoService, verifier)   *)
(*   src/startlistsources/start_list_source_meos.py  (StartListSourceMeos) *)
(*                                                                         *)
(* Python values are represented as follows.                               *)
(*   None                      the string None below                       *)
(*   Element.find() -> None    NoElem                                      *)
(*   a missing XML attribute   NoAttr (attrib[...] raises KeyError)        *)
(*   the outcome of a call     a record [kind, bibNumber, relayLeg, exc,   *)
(*                             msg]; kind is "None" (returned None),       *)
(*                             "dict" (returned the result dict) or        *)
(*                             "raise" (an exception left the call)        *)
(***************************************************************************)
EXTENDS Naturals, Sequences, FiniteSets, TLC

VARIABLES
    meos_url,        \* MeosInfoService.meos_url
    is_relay,        \* MeosInfoService.is_relay
    running,         \* StartListSourceMeos._running
    pc,              \* position of the lookup in flight: "idle", "checked", "built"
    card,            \* card_number argument of the lookup in flight (or last one)
    calls,           \* calls of get_event_race_pre_warning_data made by the last lookup
    issued,          \* urlopen calls made by the last lookup
    checkedUrl,      \* value of self.meos_url read by the None test (line 150)
    usedUrl,         \* value of self.meos_url read to build the request (line 153)
    request,         \* the Request built at lines 153-158
    response,        \* what urlopen produced for the last lookup
    svcOutcome,      \* outcome of get_event_race_pre_warning_data
    adapterOutcome,  \* outcome of lookup_from_card_number
    vUrl,            \* argument of the last _verify_info_service_url call
    vRequest,        \* the Request built by the verifier
    vResponse,       \* what urlopen produced for the verifier
    verification     \* outcome of the last _verify_info_service_url call

vars == << meos_url, is_relay, running, pc, card, calls, issued,
           checkedUrl, usedUrl, request, response, svcOutcome, adapterOutcome,
           vUrl, vRequest, vResponse, verification >>

lookupVars == << pc, card, calls, issued, checkedUrl, usedUrl,
                 request, response, svcOutcome, adapterOutcome >>

verifyVars == << vUrl, vRequest, vResponse, verification >>

----------------------------------------------------------------------------
(* Values *)

None == "<None>"
NoElem == "<no element>"
NoAttr == "<no attribute>"
Unread == "<unread>"

DEFAULT_RESPONSE_ENCODING == "utf-8"

DefaultMeosUrl == "http://localhost:2009/meos"

\* Values the MeosUrl option can hold: unset, a string that is no URL, a URL.
Urls == {None, "not a url", DefaultMeosUrl}

Cards == {"4711"}

\* Longest Competitor list in a response of the model.
MaxRunners == 2

\* A Competitor element: the code attribute of its Status child, the id
\* attribute of its Team child, the text of its Leg child.
Competitors ==
    [ Status : {NoElem, NoAttr, "0", "1"},
      Team   : {NoElem, NoAttr, "42", "43"},
      Leg    : {NoElem, "2"} ]

RunnerLists == UNION { [1..n -> Competitors] : n \in 0..MaxRunners }

\* Codecs bytes.decode() knows; any other name raises LookupError.
KnownCodecs == {"utf-8", "iso-8859-1"}

NoResponse ==
    [ net |-> "none", code |-> 0, charset |-> None, bytes |-> "ascii",
      xml |-> "none", competition |-> NoElem, runners |-> << >> ]

\* urlopen failed: the host was not reached, or it answered with an error status.
FailedResponses ==
    { [NoResponse EXCEPT !.net = "URLError"] }
      \cup { [NoResponse EXCEPT !.net = "HTTPError", !.code = c] : c \in {404, 500} }

\* urlopen succeeded: a charset header (or none), a body that is plain ASCII or
\* holds ISO-8859-1 bytes that are no UTF-8, and the body's text: not XML, or a
\* document with an optional competition element and a list of Competitors.
Body(cs, by, x, comp, rs) ==
    [ net |-> "ok", code |-> 200, charset |-> cs, bytes |-> by,
      xml |-> x, competition |-> comp, runners |-> rs ]

Charsets == {None, "utf-8", "iso-8859-1", "x-unknown"}

LookupResponses ==
    FailedResponses
      \cup { Body(cs, by, x, NoElem, << >>) :
                cs \in Charsets, by \in {"ascii", "latin1"}, x \in {"malformed", "doc"} }
      \cup { Body(None, "ascii", "doc", NoElem, rs) : rs \in RunnerLists }

VerifyResponses ==
    FailedResponses
      \cup { Body(cs, by, "malformed", NoElem, << >>) :
                cs \in Charsets, by \in {"ascii", "latin1"} }
      \cup { Body(cs, by, "doc", comp, << >>) :
                cs \in Charsets, by \in {"ascii", "latin1"},
                comp \in {NoElem, None, "Varstafetten"} }

----------------------------------------------------------------------------
(* Outcomes of a call *)

Outcome(k, b, l, e, m) ==
    [ kind |-> k, bibNumber |-> b, relayLeg |-> l, exc |-> e, msg |-> m ]

NotCalled == Outcome("notcalled", None, None, "", "")
Pending == Outcome("pending", None, None, "", "")
ReturnNone == Outcome("None", None, None, "", "")
ReturnDict(b, l) == Outcome("dict", b, l, "", "")
Raise(e, m) == Outcome("raise", None, None, e, m)

----------------------------------------------------------------------------
(* XML helpers and the disambiguation of the Competitor list *)

\* _get_data: the text of the first child the selector finds, None without one.
\* `child` is NoElem when find() found nothing, and the child's text otherwise.
_get_data(child) ==
    IF child # NoElem THEN child ELSE None

\* _has_no_result: "True", "False", or "KeyError" when the Status element has
\* no code attribute (statusElem.attrib['code']).
_has_no_result(runner) ==
    IF runner.Status = NoElem
    THEN "False"
    ELSE IF runner.Status = NoAttr
         THEN "KeyError"
         ELSE IF runner.Status = "0" THEN "True" ELSE "False"

\* next(filter(self._has_no_result, runners), None), scanning from index i:
\* the index of the first runner the predicate accepts, kind "none" when the
\* list is exhausted, kind "raise" when the predicate raises on the way.
Selection(k, i) == [ kind |-> k, index |-> i ]

RECURSIVE FirstNoResult(_, _)
FirstNoResult(runners, i) ==
    IF i > Len(runners)
    THEN Selection("none", 0)
    ELSE LET r == _has_no_result(runners[i])
         IN  IF r = "KeyError"
             THEN Selection("raise", i)
             ELSE IF r = "True"
                  THEN Selection("found", i)
                  ELSE FirstNoResult(runners, i + 1)

\* Line 183: no runner came back.
NoRunnerFound_Never(runners) == FALSE

NoRunnerFound(runners) == Len(runners) = 0

\* Lines 187-193: the runner the result is taken from. runners[0] of an empty
\* list is Python's IndexError.
SelectRunner_AlwaysFilter(runners) ==
    IF Len(runners) = 0
    THEN Selection("IndexError", 0)
    ELSE FirstNoResult(runners, 1)

SelectRunner(runners) ==
    IF Len(runners) > 1
    THEN FirstNoResult(runners, 1)
    ELSE IF Len(runners) = 0
         THEN Selection("IndexError", 0)
         ELSE Selection("found", 1)

\* Line 196: the selected runner has no Team child.
TeamMissing_Never(runner) == FALSE

TeamMissing(runner) == runner.Team = NoElem

\* Lines 195-207 for a selected runner: teamElem.attrib['id'] raises KeyError
\* without the attribute (and AttributeError on a teamElem of None).
ExtractResult(runner) ==
    IF TeamMissing(runner)
    THEN ReturnNone
    ELSE IF runner.Team = NoElem
         THEN Raise("AttributeError", "'NoneType' object has no attribute 'attrib'")
         ELSE IF runner.Team = NoAttr
              THEN Raise("KeyError", "'id'")
              ELSE ReturnDict(runner.Team, _get_data(runner.Leg))

\* Lines 183-207: from the Competitor list to the outcome of the lookup. With
\* several runners and none accepted, runner is None and runner.find raises
\* AttributeError.
ResolveRunners(runners) ==
    IF NoRunnerFound(runners)
    THEN ReturnNone
    ELSE LET sel == SelectRunner(runners)
         IN  IF sel.kind = "found"
             THEN ExtractResult(runners[sel.index])
             ELSE IF sel.kind = "none"
                  THEN Raise("AttributeError", "'NoneType' object has no attribute 'find'")
                  ELSE IF sel.kind = "raise"
                       THEN Raise("KeyError", "'code'")
                       ELSE Raise("IndexError", "list index out of range")

----------------------------------------------------------------------------
(* Query building and transport *)

NoRequest == [ base |-> None, query |-> << >> ]

\* URL(base) with set_query applied for each pair, and Request(url.url): a base
\* that is no URL (None included) raises before any request exists (imurl and
\* urllib reject it: Request raises ValueError for an unknown url type).
BuildRequest(base, query) ==
    IF base = DefaultMeosUrl
    THEN [ ok |-> TRUE, req |-> [ base |-> base, query |-> query ], exc |-> "", msg |-> "" ]
    ELSE [ ok |-> FALSE, req |-> NoRequest, exc |-> "ValueError",
           msg |-> "unknown url type" ]

LookupQuery(c) == << <<"lookup", "competitor">>, <<"card", c>> >>

VerifyQuery == << <<"get", "competition">> >>

\* response.info().get_content_charset(), defaulted (lines 43-45, 161-163).
ResponseEncoding(resp) ==
    IF resp.charset = None THEN DEFAULT_RESPONSE_ENCODING ELSE resp.charset

\* urlopen, then response.read().decode(encoding): the exception raised, or ""
\* when the body was decoded to text.
ReadBody(resp) ==
    IF resp.net = "URLError"
    THEN [ exc |-> "URLError", msg |-> "<urlopen error>" ]
    ELSE IF resp.net = "HTTPError"
         THEN [ exc |-> "HTTPError", msg |-> IF resp.code = 404
                                             THEN "HTTP Error 404: Not Found"
                                             ELSE "HTTP Error 500: Internal Server Error" ]
         ELSE IF ResponseEncoding(resp) \notin KnownCodecs
              THEN [ exc |-> "LookupError", msg |-> "unknown encoding" ]
              ELSE IF ResponseEncoding(resp) = "utf-8" /\ resp.bytes = "latin1"
                   THEN [ exc |-> "UnicodeDecodeError", msg |-> "invalid start byte" ]
                   ELSE [ exc |-> "", msg |-> "" ]

\* ElementTree.fromstring(data) raises ParseError on text that is no XML.
Malformed(resp) == resp.xml = "malformed"

\* Lines 159-207: the request is sent; every exception of the transport is
\* logged and re-raised, the body parsed and the runners resolved.
FetchAndResolve(resp) ==
    LET body == ReadBody(resp)
    IN  IF body.exc # ""
        THEN Raise(body.exc, body.msg)
        ELSE IF Malformed(resp)
             THEN Raise("ParseError", "syntax error")
             ELSE ResolveRunners(resp.runners)

----------------------------------------------------------------------------
(* The endpoint verifier *)

\* VerificationResult(message, status): status is True unless given.
VerificationResultDefaultStatus == TRUE

VerificationResult(message, status) ==
    [ kind |-> "result", status |-> status, message |-> message, exc |-> "" ]

VerifierRaised(e) ==
    [ kind |-> "raise", status |-> FALSE, message |-> << >>, exc |-> e ]

NoVerification ==
    [ kind |-> "none", status |-> FALSE, message |-> << >>, exc |-> "" ]

\* str() of a value placed in an f-string.
Str(v) == IF v = None THEN "None" ELSE v

\* Line 53, `except Exception`: every exception the body raises is caught.
VerifierCatches_TransportOnly(exc) == exc \in {"HTTPError", "URLError"}

VerifierCatches(exc) == TRUE

\* Lines 53-55.
VerifierFailed(exc, msg) ==
    IF VerifierCatches(exc)
    THEN VerificationResult(<< msg >>, FALSE)
    ELSE VerifierRaised(exc)

\* Lines 35-40: the request of the verifier, or the exception of an absent or
\* unparseable URL.
VerifierRequest(url) ==
    IF url = None
    THEN [ ok |-> FALSE, req |-> NoRequest, exc |-> "ValueError",
           msg |-> "Info service URL must be configured." ]
    ELSE BuildRequest(url, VerifyQuery)

\* _verify_info_service_url, lines 33-55. resp is what urlopen produces for
\* the request, when one is made.
_verify_info_service_url(url, resp) ==
    LET b == VerifierRequest(url)
    IN  IF ~b.ok
        THEN VerifierFailed(b.exc, b.msg)
        ELSE LET body == ReadBody(resp)
             IN  IF body.exc # ""
                 THEN VerifierFailed(body.exc, body.msg)
                 ELSE IF Malformed(resp)
                      THEN VerifierFailed("ParseError", "syntax error")
                      ELSE LET compName == _get_data(resp.competition)
                           IN  VerificationResult(
                                   << "URL is valid. Found competition ", Str(compName) >>,
                                   VerificationResultDefaultStatus)

----------------------------------------------------------------------------
(* The start-list adapter *)

\* Line 94: the adapter was not started.
NotStarted_Never(r) == FALSE

NotStarted(r) == ~r

\* Line 101: the only exception the adapter suppresses.
AdapterCatches_Everything(exc) == TRUE

AdapterCatches(exc) == exc = "OperationalError"

\* Lines 97-104: what lookup_from_card_number makes of the service's outcome.
AdapterReturn(outcome) ==
    IF outcome.kind = "raise" /\ AdapterCatches(outcome.exc)
    THEN ReturnNone
    ELSE outcome

----------------------------------------------------------------------------
(* State machine *)

Init ==
    /\ meos_url \in Urls
    /\ is_relay = None
    /\ running = FALSE
    /\ pc = "idle"
    /\ card = None
    /\ calls = 0
    /\ issued = 0
    /\ checkedUrl = Unread
    /\ usedUrl = Unread
    /\ request = NoRequest
    /\ response = NoResponse
    /\ svcOutcome = NotCalled
    /\ adapterOutcome = NotCalled
    /\ vUrl = Unread
    /\ vRequest = NoRequest
    /\ vResponse = NoResponse
    /\ verification = NoVerification

\* MeosInfoService.config_updated -> _parse_config: the option is read again.
\* It may run while a lookup is in flight.
ConfigUpdated(u) ==
    /\ meos_url' = u
    /\ is_relay' = None
    /\ UNCHANGED << running, lookupVars, verifyVars >>

\* StartListSourceMeos.start (update -> _parse_config does nothing).
Start ==
    /\ running' = TRUE
    /\ UNCHANGED << meos_url, is_relay, lookupVars, verifyVars >>

\* StartListSourceMeos.stop.
Stop ==
    /\ running' = FALSE
    /\ UNCHANGED << meos_url, is_relay, lookupVars, verifyVars >>

\* StartListSourceMeos.config_updated -> update -> _parse_config: pass.
AdapterConfigUpdated ==
    UNCHANGED vars

\* lookup_from_card_number up to the None test of the service (lines 94-98
\* and 148-151): a stopped adapter returns None at once; a running one calls
\* get_event_race_pre_warning_data, which reads self.meos_url and raises
\* ValueError when it is None.
LookupFromCardNumber(c) ==
    /\ pc = "idle"
    /\ card' = c
    /\ issued' = 0
    /\ usedUrl' = Unread
    /\ request' = NoRequest
    /\ response' = NoResponse
    /\ IF NotStarted(running)
       THEN /\ calls' = 0
            /\ checkedUrl' = Unread
            /\ svcOutcome' = NotCalled
            /\ adapterOutcome' = ReturnNone
            /\ pc' = "idle"
       ELSE /\ calls' = 1
            /\ checkedUrl' = meos_url
            /\ IF meos_url = None
               THEN /\ svcOutcome' = Raise("ValueError", "MeOS Info server URL must be configured.")
                    /\ adapterOutcome' = AdapterReturn(svcOutcome')
                    /\ pc' = "idle"
               ELSE /\ svcOutcome' = Pending
                    /\ adapterOutcome' = Pending
                    /\ pc' = "checked"
    /\ UNCHANGED << meos_url, is_relay, running, verifyVars >>

\* Lines 153-158: self.meos_url is read a second time and the request built.
BuildLookupRequest ==
    /\ pc = "checked"
    /\ usedUrl' = meos_url
    /\ LET b == BuildRequest(meos_url, LookupQuery(card))
       IN  IF b.ok
           THEN /\ request' = b.req
                /\ pc' = "built"
                /\ UNCHANGED << svcOutcome, adapterOutcome >>
           ELSE /\ request' = NoRequest
                /\ svcOutcome' = Raise(b.exc, b.msg)
                /\ adapterOutcome' = AdapterReturn(svcOutcome')
                /\ pc' = "idle"
    /\ UNCHANGED << meos_url, is_relay, running, card, calls, issued,
                    checkedUrl, response, verifyVars >>

\* Lines 159-207 and 99-104: the request is sent and answered with resp.
Fetch(resp) ==
    /\ pc = "built"
    /\ issued' = issued + 1
    /\ response' = resp
    /\ svcOutcome' = FetchAndResolve(resp)
    /\ adapterOutcome' = AdapterReturn(svcOutcome')
    /\ pc' = "idle"
    /\ UNCHANGED << meos_url, is_relay, running, card, calls,
                    checkedUrl, usedUrl, request, verifyVars >>

\* A call of _verify_info_service_url (the verifier of the MeosUrl option).
Verify(url, resp) ==
    /\ IF VerifierRequest(url).ok THEN resp \in VerifyResponses ELSE resp = NoResponse
    /\ vUrl' = url
    /\ vRequest' = VerifierRequest(url).req
    /\ vResponse' = resp
    /\ verification' = _verify_info_service_url(url, resp)
    /\ UNCHANGED << meos_url, is_relay, running, lookupVars >>

Next ==
    \/ \E u \in Urls : ConfigUpdated(u)
    \/ Start
    \/ Stop
    \/ AdapterConfigUpdated
    \/ \E c \in Cards : LookupFromCardNumber(c)
    \/ BuildLookupRequest
    \/ pc = "built" /\ \E resp \in LookupResponses : Fetch(resp)

Spec == Init /\ [][Next]_vars

\* Configuration time: the option is verified and the configuration updated.
NextVerify ==
    \/ \E url \in Urls, resp \in VerifyResponses \cup {NoResponse} : Verify(url, resp)
    \/ \E u \in Urls : ConfigUpdated(u)

SpecVerify == Init /\ [][NextVerify]_vars

----------------------------------------------------------------------------
(* Properties of the lookup (specification Spec) *)

\* The last lookup went through get_event_race_pre_warning_data and is over.
LookupDone == pc = "idle" /\ calls = 1

\* The request was answered with a body that decoded and parsed as XML.
Parsed(resp) == resp.net = "ok" /\ ReadBody(resp).exc = "" /\ resp.xml = "doc"

Answered == LookupDone /\ issued = 1 /\ Parsed(response)

HasStatusZero(runners) == \E i \in 1..Len(runners) : runners[i].Status = "0"

\* Index of the first runner in document order whose Status code is "0".
FirstStatusZero(runners) ==
    CHOOSE i \in 1..Len(runners) :
        /\ runners[i].Status = "0"
        /\ \A j \in 1..(i - 1) : runners[j].Status # "0"

\* The result dict the claims expect of a runner that has a Team.
ExpectedDict(runner) ==
    ReturnDict(runner.Team, IF runner.Leg = NoElem THEN None ELSE runner.Leg)

\* C1: a response with more than one Competitor, none of them with Status code
\* "0", ends in an outcome of its own: no exception, no result taken from some
\* candidate, and not the None returned for zero matches.
C1_AmbiguityIsDistinguishable ==
    (Answered /\ Len(response.runners) > 1 /\ ~HasStatusZero(response.runners))
        => svcOutcome.kind \notin {"raise", "dict", "None"}

\* C2: with more than one Competitor and at least one Status code "0", the
\* result is the one taken from the first Competitor in document order whose
\* Status code is "0".
C2_FirstStatusZeroIsUsed ==
    (Answered /\ Len(response.runners) > 1 /\ HasStatusZero(response.runners))
        => svcOutcome = ExtractResult(response.runners[FirstStatusZero(response.runners)])

\* C3: a well-formed response with zero Competitor elements gives None, from
\* the service and from the adapter, and nothing is raised.
C3_NoCompetitorIsNone ==
    (Answered /\ Len(response.runners) = 0)
        => svcOutcome = ReturnNone /\ adapterOutcome = ReturnNone

C3_Witness ==
    /\ Answered
    /\ Len(response.runners) = 0
    /\ svcOutcome = ReturnNone

\* C4 as claimed: exactly one Competitor, with a Team child, gives
\* {bibNumber: the Team's id, relayLeg: the Leg text or None}, whatever its Status.
C4_SingleWithTeam ==
    (Answered /\ Len(response.runners) = 1 /\ response.runners[1].Team # NoElem)
        => svcOutcome = ExpectedDict(response.runners[1])

\* C4 as amended: exactly one Competitor, with a Team child that carries an id
\* attribute, gives {bibNumber: that id, relayLeg: the Leg text or None},
\* whatever its Status.
C4_SingleWithTeamId ==
    (Answered /\ Len(response.runners) = 1
              /\ response.runners[1].Team \notin {NoElem, NoAttr})
        => /\ svcOutcome = ExpectedDict(response.runners[1])
           /\ adapterOutcome = svcOutcome

C4_Witness ==
    /\ Answered
    /\ Len(response.runners) = 1
    /\ response.runners[1].Status = "1"
    /\ response.runners[1].Leg = NoElem
    /\ svcOutcome = ReturnDict("42", None)

\* A candidate was selected: the single one, or the first with Status code "0"
\* among several, the scan having reached it.
SelectedIndex(runners) ==
    IF Len(runners) = 1 THEN 1 ELSE FirstStatusZero(runners)

CandidateSelected(runners) ==
    \/ Len(runners) = 1
    \/ /\ Len(runners) > 1
       /\ HasStatusZero(runners)
       /\ \A j \in 1..(FirstStatusZero(runners) - 1) : runners[j].Status # NoAttr

\* C5: when the selected candidate has no Team child the lookup gives None and
\* raises nothing.
C5_NoTeamIsNone ==
    (Answered /\ CandidateSelected(response.runners)
              /\ response.runners[SelectedIndex(response.runners)].Team = NoElem)
        => svcOutcome = ReturnNone /\ adapterOutcome = ReturnNone

C5_Witness ==
    /\ Answered
    /\ Len(response.runners) = 2
    /\ response.runners[1].Status = "1"
    /\ response.runners[2].Status = "0"
    /\ response.runners[2].Team = NoElem
    /\ svcOutcome = ReturnNone

\* C8: a failure of the lookup reaches the caller as an exception, from the
\* service and from the running adapter: an endpoint of None raises before a
\* request exists, a failed transport raises its error, a body that is no XML
\* raises, and no exception of the service is turned into None.
C8_FailuresSurface ==
    LookupDone =>
        /\ checkedUrl = None =>
              /\ svcOutcome.kind = "raise" /\ svcOutcome.exc = "ValueError"
              /\ issued = 0 /\ request = NoRequest
        /\ usedUrl = None =>
              /\ svcOutcome.kind = "raise"
              /\ issued = 0 /\ request = NoRequest
        /\ (issued = 1 /\ response.net \in {"URLError", "HTTPError"}) =>
              svcOutcome.kind = "raise" /\ svcOutcome.exc = response.net
        /\ (issued = 1 /\ response.net = "ok" /\ ReadBody(response).exc = ""
                       /\ response.xml = "malformed") =>
              svcOutcome.kind = "raise" /\ svcOutcome.exc = "ParseError"
        /\ svcOutcome.kind = "raise" => adapterOutcome = svcOutcome

C8_Witness ==
    /\ LookupDone
    /\ issued = 1
    /\ response.net = "HTTPError"
    /\ adapterOutcome.kind = "raise"
    /\ adapterOutcome.exc = "HTTPError"

\* C9: the endpoint a lookup builds its request from is the endpoint its None
\* test read.
C9_SingleSnapshot ==
    /\ usedUrl # Unread => usedUrl = checkedUrl
    /\ request # NoRequest => request.base = checkedUrl

\* C10: a lookup on a stopped adapter returns None without calling the
\* service, a lookup on a running adapter calls the service once and ends with
\* its outcome, and only start and stop change the running flag.
C10_CallStep ==
    /\ (\E c \in Cards : LookupFromCardNumber(c)) =>
          IF running
          THEN calls' = 1
          ELSE calls' = 0 /\ issued' = 0 /\ pc' = "idle" /\ adapterOutcome' = ReturnNone
    /\ running' # running => (Start \/ Stop)
    /\ calls' # calls => (\E c \in Cards : LookupFromCardNumber(c))

C10_Result ==
    /\ calls \in {0, 1}
    /\ (pc = "idle" /\ calls = 1) => adapterOutcome = svcOutcome
    /\ (calls = 0 /\ adapterOutcome # NotCalled) => adapterOutcome = ReturnNone /\ issued = 0

C10_AdapterForwards == [] C10_Result /\ [][C10_CallStep]_vars

C10_Witness ==
    /\ ~running
    /\ card # None
    /\ calls = 0
    /\ adapterOutcome = ReturnNone

----------------------------------------------------------------------------
(* Properties of the verifier (specification SpecVerify) *)

Verified == vUrl # Unread

\* The probe failed: no usable URL, no answer, or a body that does not decode
\* or parse.
ProbeFailed ==
    /\ Verified
    /\ \/ vUrl # DefaultMeosUrl
       \/ ~Parsed(vResponse)

\* C6: the verifier always ends by returning a VerificationResult, and a
\* failed probe gives status False with the text of the error as message.
C6_VerifierNeverRaises ==
    Verified =>
        /\ verification.kind = "result"
        /\ ProbeFailed =>
              /\ verification.status = FALSE
              /\ Len(verification.message) = 1
              /\ verification.message[1] # ""
        /\ vUrl = None =>
              verification.message = << "Info service URL must be configured." >>

C6_Witness ==
    /\ Verified
    /\ vResponse.net = "ok"
    /\ vResponse.xml = "malformed"
    /\ ReadBody(vResponse).exc = ""
    /\ verification.kind = "result"
    /\ verification.status = FALSE

\* C7: the verifier reports success only for a well-formed response with a
\* competition element, whose name is in the message; a well-formed response
\* without a competition element is reported as a failure.
C7_SuccessNeedsCompetition ==
    Verified =>
        /\ (verification.kind = "result" /\ verification.status) =>
              /\ Parsed(vResponse)
              /\ vResponse.competition # NoElem
              /\ verification.message[2] = Str(vResponse.competition)
        /\ (Parsed(vResponse) /\ vResponse.competition = NoElem) =>
              (verification.kind = "result" /\ ~verification.status)

====
